---- MODULE Spec2Model ----
(***************************************************************************)
(* A model of src/udp/udp_client_stream.rs: the future that binds a UDP    *)
(* socket to a random local port (NextRandomUdpSocket) and the stream that *)
(* sends queued buffers to a name server and yields the datagrams it       *)
(* receives (UdpClientStream).                                             *)
(*                                                                         *)
(* It also holds src/rr/dnssec/nsec3.rs: the decoding of the NSEC3 hash     *)
(* algorithm code and the iterated hash of an owner name.                  *)
(*                                                                         *)
(* An Option<T> is a sequence of length at most one: None is << >> and     *)
(* Some(x) is <<x>>.  Variables and operators whose source is the code     *)
(* keep the code's names.  The variables enqueued, sent, dropped, trace,   *)
(* ret, item, bind and send_ret record what the operations did (history),  *)
(* the code never reads them; decoded, encoded and hashed hold the last    *)
(* call of each function of nsec3.rs with its arguments and its result.    *)
(***************************************************************************)
EXTENDS Integers, Sequences, FiniteSets, TLC

\* ------------------------------------------------------------ bounds
\* Buffers accepted by send() over the life of one stream.
MaxEnq == 2
\* Datagrams waiting in the socket's receive buffer.
MaxInbound == 2
\* The largest iteration count Nsec3HashAlgorithm::hash is called with.
MaxIterations == 3

\* ------------------------------------------------------------ constants
\* for attempt in 0..10
BIND_ATTEMPTS == 10
\* rand.gen_range(1025_u16, u16::max_value())
PORT_LOW == 1025
PORT_HIGH == 65535
\* let mut buf = [0u8; 2048]
RECV_BUF_LEN == 2048

\* ------------------------------------------------------------ values
None == << >>
Some(x) == <<x>>

\* The destination is an IPv4 or an IPv6 socket address.
NameServers == { [fam |-> "V4", host |-> "ns"], [fam |-> "V6", host |-> "ns"] }
\* Payloads of outbound buffers (Vec<u8>).
Payloads == {"qa", "qb"}
\* Sizes, in bytes, of the datagrams that arrive.
DatagramSizes == {12, 3000}
\* Where a datagram comes from: the name server, or someone else.
Sources == {"ns", "other"}
\* Values the random number generator can return (u16).
RawSamples == {0, 1, 64509, 64510, 65535}


VARIABLES
  phase,              \* "binding": NextRandomUdpSocket is polled; "streaming": the stream exists
  name_server,        \* UdpClientStream.name_server
  bind_address,       \* NextRandomUdpSocket.bind_address
  socket,             \* UdpClientStream.socket: Some(local address) once bound
  outbound_messages,  \* the channel's buffered items, read through Fuse<Receiver<Vec<u8>>>
  fuse_done,          \* Fuse.done of outbound_messages
  senders,            \* live Sender handles of the channel
  outbound_opt,       \* UdpClientStream.outbound_opt
  inbound,            \* datagrams in the socket's receive buffer
  enqueued,           \* history: payloads accepted by send(), in order
  sent,               \* history: buffers send_to transmitted, in order
  dropped,            \* history: buffers dequeued and released unsent
  trace,              \* history: the I/O calls of the last poll, in order
  ret,                \* history: what the last poll returned
  item,               \* history: the datagram the last poll yielded
  bind,               \* history: what the last NextRandomUdpSocket::poll did
  send_ret,           \* history: what the last UdpClientStream::send returned
  decoded,            \* the last Nsec3HashAlgorithm::from_u8: its argument and its result
  encoded,            \* the last u8::from(Nsec3HashAlgorithm): its argument and its result
  hashed              \* the last Nsec3HashAlgorithm::hash: its arguments and its result

\* The state of nsec3.rs.
nsec3_vars == << decoded, encoded, hashed >>

\* The state of udp_client_stream.rs.
udp_vars == << phase, name_server, bind_address, socket, outbound_messages, fuse_done,
               senders, outbound_opt, inbound, enqueued, sent, dropped, trace, ret,
               item, bind, send_ret >>

vars == << phase, name_server, bind_address, socket, outbound_messages, fuse_done,
           senders, outbound_opt, inbound, enqueued, sent, dropped, trace, ret,
           item, bind, send_ret, nsec3_vars >>

\* No function of nsec3.rs has been called.
NoNsec3 == decoded = None /\ encoded = None /\ hashed = None

\* ------------------------------------------------------------ binding
IPV4_ZERO == [fam |-> "V4", host |-> "0.0.0.0"]
IPV6_ZERO == [fam |-> "V6", host |-> "::"]

\* next_bound_local_address without its IPv6 arm.
next_bound_local_address_AlwaysV4(ns) == IPV4_ZERO

\* UdpClientStream::next_bound_local_address: the wildcard address of the
\* name server's family.
next_bound_local_address(ns) ==
  IF ns.fam = "V4" THEN IPV4_ZERO ELSE IPV6_ZERO

\* gen_range with the upper end of the range included.
gen_range_Inclusive(low, high, raw) == low + (raw % (high - low + 1))

\* rand::Rng::gen_range(low, high): a value of [low, high) from a raw draw.
gen_range(low, high, raw) == low + (raw % (high - low))

\* What UdpSocket::bind returns on the attempt-th try of one poll, as the
\* environment decides it: env.firstOk is the first attempt a bind would
\* succeed on, and the attempts of env.hard fail with an error that is not
\* "address in use" (EACCES, EADDRNOTAVAIL, EAFNOSUPPORT ...).
BindOutcome(env, attempt) ==
  IF attempt \in env.hard THEN "HardErr"
  ELSE IF attempt >= env.firstOk THEN "Ok"
  ELSE "AddrInUse"

\* The raw draw of the attempt-th try.
RawDraw(env, attempt) == IF attempt = env.pos THEN env.special ELSE env.base

\* The range of the loop with its end included.
BindRange_Inclusive == 0 .. BIND_ATTEMPTS

\* The attempts `for attempt in 0..10` makes.
BindRange == 0 .. (BIND_ATTEMPTS - 1)

\* The loop of NextRandomUdpSocket::poll from `attempt` on; b is the record of
\* what the poll did so far.
RECURSIVE BindLoop(_, _, _, _)
BindLoop(addr, env, attempt, b) ==
  IF attempt \notin BindRange
  THEN \* warn!("could not get next random port, delaying"); Ok(Async::NotReady)
       [b EXCEPT !.ret = "NotReady"]
  ELSE LET port == gen_range(PORT_LOW, PORT_HIGH, RawDraw(env, attempt))
           zero_addr == [fam |-> addr.fam, host |-> addr.host, port |-> port]
           out == BindOutcome(env, attempt)
           b1 == [b EXCEPT !.attempts = @ + 1,
                           !.outs = Append(@, out),
                           !.ports = @ \cup {port},
                           !.fams = @ \cup {zero_addr.fam},
                           !.hard = @ \/ (out = "HardErr")]
       IN IF out = "Ok"
          THEN [b1 EXCEPT !.ret = "Ready", !.socket = Some(zero_addr)]
          ELSE \* Err(err) => debug!(...): every error is logged and the loop goes on
               BindLoop(addr, env, attempt + 1, b1)

\* The record of a poll of the binder: what it returned, how many binds it
\* made and what each answered, the ports and address families it tried,
\* whether a bind failed with a hard error, and the socket it yielded.
NoBind == [ret |-> "None", attempts |-> 0, outs |-> << >>, ports |-> {}, fams |-> {},
           hard |-> FALSE, socket |-> None]

\* The environments of one NextRandomUdpSocket::poll.
BindEnvs ==
  [ firstOk : 0 .. (BIND_ATTEMPTS + 1),
    hard : { {} } \cup { {h} : h \in {0, BIND_ATTEMPTS - 1} } \cup { 0 .. BIND_ATTEMPTS },
    base : RawSamples, special : RawSamples, pos : {0, BIND_ATTEMPTS - 1} ]

\* NextRandomUdpSocket::poll, and on Ready the closure of UdpClientStream::new
\* that builds the stream around the socket.
BinderPoll(env) ==
  /\ phase = "binding"
  /\ \E b \in {BindLoop(bind_address, env, 0, NoBind)} :
        /\ bind' = b
        /\ IF b.ret = "Ready"
           THEN /\ phase' = "streaming"
                /\ socket' = b.socket
                /\ outbound_opt' = None
                /\ senders' = 1
           ELSE UNCHANGED << phase, socket, outbound_opt, senders >>
  /\ UNCHANGED << name_server, bind_address, outbound_messages, fuse_done, inbound,
                  enqueued, sent, dropped, trace, ret, item, send_ret, nsec3_vars >>

\* ------------------------------------------------------------ the stream
\* One I/O call of a poll, as the trace records it.
Event(op, buf, out) == [op |-> op, buf |-> buf, out |-> out]

Min(a, b) == IF a <= b THEN a ELSE b

\* How many calls of `op` the trace holds.
Calls(tr, op) == Cardinality({i \in DOMAIN tr : tr[i].op = op})

\* What socket.send_to returns on its k-th call of one poll, as the
\* environment decides it.
SendOutcome(env, k) == IF k = env.sendFailAt THEN env.sendFailKind ELSE "Ok"

\* What socket.poll_write returns on its k-th call of one poll.
WriteOutcome(env, k) == IF k = env.writeFailAt THEN env.writeFailKind ELSE "Ready"

\* Receiver::poll of the channel: the oldest buffered item; with none buffered,
\* Ready(None) once every Sender is gone, NotReady otherwise.
ReceiverPoll(q, nsenders) ==
  IF q # << >> THEN "Item"
  ELSE IF nsenders = 0 THEN "Closed"
  ELSE "NotReady"

\* Fuse::poll: once the inner stream has ended it is not polled again.
FusePoll(done, q, nsenders) ==
  IF done THEN "Closed" ELSE ReceiverPoll(q, nsenders)

\* FlushStep with the early return of try_nb! lost: a send that would block is
\* taken for done.
FlushStep_IgnoreBlock(env, s) ==
  IF s.opt # None
  THEN LET buffer == s.opt[1]
           out == SendOutcome(env, Calls(s.trace, "send_to"))
           tr == Append(s.trace, Event("send_to", Some(buffer), out))
       IN CASE out = "Err" ->
                 [s EXCEPT !.trace = tr, !.ctl = "return", !.ret = "Err"]
            [] out = "WouldBlock" -> [s EXCEPT !.trace = tr, !.opt = None]
            [] OTHER ->
                 [s EXCEPT !.trace = tr, !.sent = Append(@, buffer), !.opt = None]
  ELSE [s EXCEPT !.opt = None]

\* FlushStep without `self.outbound_opt = None`: the slot keeps the buffer it
\* has sent.
FlushStep_NoClear(env, s) ==
  IF s.opt # None
  THEN LET buffer == s.opt[1]
           out == SendOutcome(env, Calls(s.trace, "send_to"))
           tr == Append(s.trace, Event("send_to", Some(buffer), out))
       IN CASE out = "WouldBlock" ->
                 [s EXCEPT !.trace = tr, !.ctl = "return", !.ret = "NotReady"]
            [] out = "Err" ->
                 [s EXCEPT !.trace = tr, !.ctl = "return", !.ret = "Err"]
            [] OTHER ->
                 [s EXCEPT !.trace = tr, !.sent = Append(@, buffer)]
  ELSE s

\* FlushStep that gives the buffer up when the send would block.
FlushStep_DropOnBlock(env, s) ==
  IF s.opt # None
  THEN LET buffer == s.opt[1]
           out == SendOutcome(env, Calls(s.trace, "send_to"))
           tr == Append(s.trace, Event("send_to", Some(buffer), out))
       IN CASE out = "WouldBlock" ->
                 [s EXCEPT !.trace = tr, !.ctl = "return", !.ret = "NotReady",
                           !.opt = None]
            [] out = "Err" ->
                 [s EXCEPT !.trace = tr, !.ctl = "return", !.ret = "Err"]
            [] OTHER ->
                 [s EXCEPT !.trace = tr, !.sent = Append(@, buffer), !.opt = None]
  ELSE [s EXCEPT !.opt = None]

\* FlushStep that empties the slot when the send fails hard.
FlushStep_ClearOnErr(env, s) ==
  IF s.opt # None
  THEN LET buffer == s.opt[1]
           out == SendOutcome(env, Calls(s.trace, "send_to"))
           tr == Append(s.trace, Event("send_to", Some(buffer), out))
       IN CASE out = "WouldBlock" ->
                 [s EXCEPT !.trace = tr, !.ctl = "return", !.ret = "NotReady"]
            [] out = "Err" ->
                 [s EXCEPT !.trace = tr, !.ctl = "return", !.ret = "Err", !.opt = None]
            [] OTHER ->
                 [s EXCEPT !.trace = tr, !.sent = Append(@, buffer), !.opt = None]
  ELSE [s EXCEPT !.opt = None]

\* Lines 92-98 of poll: send the buffer of the slot, if any, then empty the
\* slot.  s.ctl is "return" when try_nb! returns from poll.
FlushStep(env, s) ==
  IF s.opt # None
  THEN LET buffer == s.opt[1]
           out == SendOutcome(env, Calls(s.trace, "send_to"))
           tr == Append(s.trace, Event("send_to", Some(buffer), out))
       IN CASE out = "WouldBlock" ->
                 [s EXCEPT !.trace = tr, !.ctl = "return", !.ret = "NotReady"]
            [] out = "Err" ->
                 [s EXCEPT !.trace = tr, !.ctl = "return", !.ret = "Err"]
            [] OTHER ->
                 [s EXCEPT !.trace = tr, !.sent = Append(@, buffer), !.opt = None]
  ELSE [s EXCEPT !.opt = None]

\* PullStep that keeps the dequeued buffer in the slot when the socket is not
\* writable.
PullStep_KeepOnNotReady(env, s) ==
  LET got == FusePoll(s.done, s.q, s.senders)
      tr == Append(s.trace, Event("outbound_messages.poll",
                                  IF got = "Item" THEN Some(Head(s.q)) ELSE None, got))
  IN CASE got = "Item" ->
            LET buffer == Head(s.q)
                out == WriteOutcome(env, Calls(s.trace, "poll_write"))
                tr2 == Append(tr, Event("poll_write", None, out))
                s1 == [s EXCEPT !.q = Tail(@), !.trace = tr2]
            IN CASE out = "NotReady" ->
                      [s1 EXCEPT !.ctl = "return", !.ret = "NotReady",
                                 !.opt = Some(buffer)]
                 [] out = "Err" ->
                      [s1 EXCEPT !.ctl = "return", !.ret = "Err",
                                 !.dropped = Append(@, buffer)]
                 [] OTHER -> [s1 EXCEPT !.opt = Some(buffer)]
       [] got = "Closed" -> [s EXCEPT !.trace = tr, !.done = TRUE, !.ctl = "break"]
       [] OTHER -> [s EXCEPT !.trace = tr, !.ctl = "break"]

\* PullStep that leaves the loop, instead of poll, when the socket is not
\* writable.
PullStep_BreakOnNotReady(env, s) ==
  LET got == FusePoll(s.done, s.q, s.senders)
      tr == Append(s.trace, Event("outbound_messages.poll",
                                  IF got = "Item" THEN Some(Head(s.q)) ELSE None, got))
  IN CASE got = "Item" ->
            LET buffer == Head(s.q)
                out == WriteOutcome(env, Calls(s.trace, "poll_write"))
                tr2 == Append(tr, Event("poll_write", None, out))
                s1 == [s EXCEPT !.q = Tail(@), !.trace = tr2]
            IN CASE out = "NotReady" ->
                      [s1 EXCEPT !.ctl = "break", !.dropped = Append(@, buffer)]
                 [] out = "Err" ->
                      [s1 EXCEPT !.ctl = "return", !.ret = "Err",
                                 !.dropped = Append(@, buffer)]
                 [] OTHER -> [s1 EXCEPT !.opt = Some(buffer)]
       [] got = "Closed" -> [s EXCEPT !.trace = tr, !.done = TRUE, !.ctl = "break"]
       [] OTHER -> [s EXCEPT !.trace = tr, !.ctl = "break"]

\* Lines 100-110 of poll: take the next item of the queue; keep it in the slot
\* when the socket is writable.  s.ctl is "break" when the loop ends.
PullStep(env, s) ==
  LET got == FusePoll(s.done, s.q, s.senders)
      tr == Append(s.trace, Event("outbound_messages.poll",
                                  IF got = "Item" THEN Some(Head(s.q)) ELSE None, got))
  IN CASE got = "Item" ->
            LET buffer == Head(s.q)
                out == WriteOutcome(env, Calls(s.trace, "poll_write"))
                tr2 == Append(tr, Event("poll_write", None, out))
                s1 == [s EXCEPT !.q = Tail(@), !.trace = tr2]
            IN CASE out = "NotReady" ->
                      [s1 EXCEPT !.ctl = "return", !.ret = "NotReady",
                                 !.dropped = Append(@, buffer)]
                 [] out = "Err" ->
                      [s1 EXCEPT !.ctl = "return", !.ret = "Err",
                                 !.dropped = Append(@, buffer)]
                 [] OTHER -> [s1 EXCEPT !.opt = Some(buffer)]
       [] got = "Closed" -> [s EXCEPT !.trace = tr, !.done = TRUE, !.ctl = "break"]
       [] OTHER -> [s EXCEPT !.trace = tr, !.ctl = "break"]

\* The body of the loop run once: one buffer at most is sent in a poll.
SendLoop_Once(env, s) ==
  LET s1 == FlushStep(env, s)
  IN IF s1.ctl = "return" THEN s1
     ELSE LET s2 == PullStep(env, s1)
          IN IF s2.ctl = "loop"
             THEN LET s3 == FlushStep(env, s2)
                  IN IF s3.ctl = "return" THEN s3 ELSE [s3 EXCEPT !.ctl = "break"]
             ELSE s2

\* The loop of poll, lines 91-111.
RECURSIVE SendLoop(_, _)
SendLoop(env, s) ==
  LET s1 == FlushStep(env, s)
  IN IF s1.ctl = "return" THEN s1
     ELSE LET s2 == PullStep(env, s1)
          IN IF s2.ctl = "loop" THEN SendLoop(env, s2) ELSE s2

\* Lines 113-116 of poll: the stream ends once the queue has ended.
DoneStep(s) ==
  IF s.done
  THEN [s EXCEPT !.ctl = "return", !.ret = "End",
                 !.trace = Append(@, Event("is_done", None, "true"))]
  ELSE s

\* RecvStep that discards a datagram from another address than the name
\* server's.
RecvStep_DropMismatch(env, s) ==
  LET out == IF env.recvErr THEN "Err"
             ELSE IF s.inbound = << >> THEN "WouldBlock" ELSE "Ok"
      tr == Append(s.trace, Event("recv_from", None, out))
  IN CASE out = "WouldBlock" -> [s EXCEPT !.trace = tr, !.ret = "NotReady"]
       [] out = "Err" -> [s EXCEPT !.trace = tr, !.ret = "Err"]
       [] OTHER ->
            LET dgram == Head(s.inbound)
                len == Min(dgram.size, RECV_BUF_LEN)
                src == dgram.src
            IN IF src # "ns"
               THEN [s EXCEPT !.inbound = Tail(@), !.ret = "NotReady",
                              !.trace = Append(tr, Event("debug", None, "mismatch"))]
               ELSE [s EXCEPT !.inbound = Tail(@), !.trace = tr, !.ret = "Item",
                              !.item = Some([len |-> len, of |-> dgram])]

\* Lines 122-130 of poll: one recv_from into a buffer of 2048 bytes; a datagram
\* from another address than the name server is logged and yielded all the same.
RecvStep(env, s) ==
  LET out == IF env.recvErr THEN "Err"
             ELSE IF s.inbound = << >> THEN "WouldBlock" ELSE "Ok"
      tr == Append(s.trace, Event("recv_from", None, out))
  IN CASE out = "WouldBlock" -> [s EXCEPT !.trace = tr, !.ret = "NotReady"]
       [] out = "Err" -> [s EXCEPT !.trace = tr, !.ret = "Err"]
       [] OTHER ->
            LET dgram == Head(s.inbound)
                len == Min(dgram.size, RECV_BUF_LEN)
                src == dgram.src
            IN [s EXCEPT !.inbound = Tail(@),
                         !.trace = IF src # "ns"
                                   THEN Append(tr, Event("debug", None, "mismatch"))
                                   ELSE tr,
                         !.ret = "Item",
                         !.item = Some([len |-> len, of |-> dgram])]

\* UdpClientStream::poll as a function of the state and of what the socket
\* answers during the call.
PollBody(env, s) ==
  LET s1 == SendLoop(env, s)
  IN IF s1.ctl = "return" THEN s1
     ELSE LET s2 == DoneStep(s1)
          IN IF s2.ctl = "return" THEN s2 ELSE RecvStep(env, s2)

\* What the socket may answer during one poll that can make at most nsend
\* calls of send_to and nwrite calls of poll_write: which call fails first, and
\* how.  Calls are counted from 0, so sendFailAt = nsend (writeFailAt = nwrite)
\* is the poll in which none fails.
PollEnvs(nsend, nwrite) ==
  { e \in [ sendFailAt : 0 .. nsend, sendFailKind : {"WouldBlock", "Err"},
            writeFailAt : 0 .. nwrite, writeFailKind : {"NotReady", "Err"},
            recvErr : BOOLEAN ] :
      /\ e.sendFailAt = nsend => e.sendFailKind = "WouldBlock"
      /\ e.writeFailAt = nwrite => e.writeFailKind = "NotReady" }

\* UdpClientStream::poll.
Poll(env) ==
  /\ phase = "streaming"
  /\ LET s0 == [opt |-> outbound_opt, q |-> outbound_messages, done |-> fuse_done,
                senders |-> senders, inbound |-> inbound, sent |-> sent,
                dropped |-> dropped, trace |-> << >>, ret |-> "None", item |-> None,
                ctl |-> "loop"]
     IN \E s \in {PollBody(env, s0)} :
        /\ outbound_opt' = s.opt
        /\ outbound_messages' = s.q
        /\ fuse_done' = s.done
        /\ inbound' = s.inbound
        /\ sent' = s.sent
        /\ dropped' = s.dropped
        /\ trace' = s.trace
        /\ ret' = s.ret
        /\ item' = s.item
  /\ UNCHANGED << phase, name_server, bind_address, socket, senders, enqueued, bind,
                  send_ret, nsec3_vars >>

\* A send on a bounded channel of one item: with the queue full the item is
\* refused.
SenderSend_Bounded(q, receiver_alive, buffer) ==
  IF receiver_alive /\ q = << >>
  THEN [ret |-> "Ok", q |-> Append(q, buffer)]
  ELSE [ret |-> "Err", q |-> q]

\* Sender::send of the channel: the item goes to the tail of the queue and the
\* call returns Ok at once (the channel is unbounded); with the Receiver gone
\* it returns an error and queues nothing.
SenderSend(q, receiver_alive, buffer) ==
  IF receiver_alive
  THEN [ret |-> "Ok", q |-> Append(q, buffer)]
  ELSE [ret |-> "Err", q |-> q]

\* UdpClientStream::send: message_sender.send(buffer).  The Receiver is the
\* stream's field outbound_messages: it is alive for as long as there is a
\* stream to call send on.
Send(data) ==
  /\ phase = "streaming"
  /\ Len(enqueued) < MaxEnq
  /\ \E r \in {SenderSend(outbound_messages, phase = "streaming",
                           [id |-> Len(enqueued) + 1, data |-> data])} :
        /\ send_ret' = r.ret
        /\ outbound_messages' = r.q
        /\ enqueued' = IF r.ret = "Ok" THEN Append(enqueued, data) ELSE enqueued
  /\ UNCHANGED << phase, name_server, bind_address, socket, fuse_done, senders,
                  outbound_opt, inbound, sent, dropped, trace, ret, item, bind,
                  nsec3_vars >>

\* The network delivers a datagram to the socket.
Arrive(dgram) ==
  /\ phase = "streaming"
  /\ Len(inbound) < MaxInbound
  /\ inbound' = Append(inbound, dgram)
  /\ UNCHANGED << phase, name_server, bind_address, socket, outbound_messages,
                  fuse_done, senders, outbound_opt, enqueued, sent, dropped, trace,
                  ret, item, bind, send_ret, nsec3_vars >>

Datagrams == [size : DatagramSizes, src : Sources]

\* UdpClientStream::new, before the socket is bound: the channel is made and the
\* binder is built for the name server's family.
BindInit ==
  /\ phase = "binding"
  /\ name_server \in NameServers
  /\ bind_address = next_bound_local_address(name_server)
  /\ socket = None
  /\ outbound_messages = << >>
  /\ fuse_done = FALSE
  /\ senders = 1
  /\ outbound_opt = None
  /\ inbound = << >>
  /\ enqueued = << >>
  /\ sent = << >>
  /\ dropped = << >>
  /\ trace = << >>
  /\ ret = "None"
  /\ item = None
  /\ bind = NoBind
  /\ send_ret = "None"
  /\ NoNsec3

\* A NextRandomUdpSocket::poll whose first bind succeeds.
FirstTry == [firstOk |-> 0, hard |-> {}, base |-> 1, special |-> 1, pos |-> 0]

\* The socket such a poll yields for `addr` (the stream never reads the port:
\* one port stands for all).
BoundSocket(addr) == BindLoop(addr, FirstTry, 0, NoBind).socket

\* A stream built without the Sender: `new` lets message_sender go instead of
\* storing it.
Init_SenderDropped ==
  /\ phase = "streaming"
  /\ name_server \in NameServers
  /\ bind_address = next_bound_local_address(name_server)
  /\ socket = BoundSocket(bind_address)
  /\ outbound_messages = << >>
  /\ fuse_done = FALSE
  /\ senders = 0
  /\ outbound_opt = None
  /\ inbound = << >>
  /\ enqueued = << >>
  /\ sent = << >>
  /\ dropped = << >>
  /\ trace = << >>
  /\ ret = "None"
  /\ item = None
  /\ bind = NoBind
  /\ send_ret = "None"
  /\ NoNsec3

\* The stream as the future of UdpClientStream::new yields it (lines 56-62):
\* the socket bound by the binder, the receiving end of the channel, the
\* Sender in message_sender, and an empty slot.
Init ==
  /\ phase = "streaming"
  /\ name_server \in NameServers
  /\ bind_address = next_bound_local_address(name_server)
  /\ socket = BoundSocket(bind_address)
  /\ outbound_messages = << >>
  /\ fuse_done = FALSE
  /\ senders = 1
  /\ outbound_opt = None
  /\ inbound = << >>
  /\ enqueued = << >>
  /\ sent = << >>
  /\ dropped = << >>
  /\ trace = << >>
  /\ ret = "None"
  /\ item = None
  /\ bind = NoBind
  /\ send_ret = "None"
  /\ NoNsec3

DoBinderPoll == \E env \in BindEnvs : BinderPoll(env)
DoPoll ==
  \E env \in PollEnvs(Len(outbound_opt) + Len(outbound_messages), Len(outbound_messages)) :
    Poll(env)
DoSend == \E data \in Payloads : Send(data)
DoArrive == \E dgram \in Datagrams : Arrive(dgram)

\* The stream, from the moment it exists.
Next == DoPoll \/ DoSend \/ DoArrive

Spec == Init /\ [][Next]_vars

\* The executor keeps polling the stream.
FairSpec == Spec /\ WF_vars(DoPoll)

\* A poll during which the socket accepts every send.
AcceptingPoll ==
  \E env \in PollEnvs(Len(outbound_opt) + Len(outbound_messages), Len(outbound_messages)) :
    /\ env.sendFailAt = Len(outbound_opt) + Len(outbound_messages)
    /\ Poll(env)

\* The executor keeps polling the stream, and the socket does not refuse the
\* sends for ever: a poll in which it accepts them comes.
AcceptSpec == Spec /\ WF_vars(AcceptingPoll)

\* The binder, until it yields a socket.
BindNext == DoBinderPoll

BindSpec == BindInit /\ [][BindNext]_vars

\* ------------------------------------------------------------ properties
\* ------------------------------------------------------------ nsec3
\* A byte (u8) of a name or of a salt.
Byte(n) == [b |-> n]

\* The arguments of from_u8: every u8.
U8 == 0 .. (2^8 - 1)

\* DecodeResult<T>.
Ok(x) == [ok |-> x]
Err(e) == [err |-> e]

\* from_u8 that takes every code it does not know for SHA-1.
from_u8_DefaultSha1(value) == Ok("SHA1")

\* Nsec3HashAlgorithm::from_u8.
from_u8(value) ==
  IF value = 1 THEN Ok("SHA1")
  ELSE Err([kind |-> "UnknownAlgorithmTypeValue", value |-> value])

\* impl From<Nsec3HashAlgorithm> for u8.
u8_from(a) == CASE a = "SHA1" -> 1

\* hash::Hasher for SHA-1: new, write_all and finish.  The hasher holds the
\* bytes written to it; the digest finish returns is a block that stands for
\* SHA-1 of those bytes: equal inputs give equal digests, different inputs
\* different ones.
HasherNew == << >>
write_all(hasher, bytes) == hasher \o bytes
finish(hasher) == << [h |-> hasher] >>

\* sha1_recursive_hash whose recursion stops one round early.
RECURSIVE sha1_recursive_hash_OffByOne(_, _, _)
sha1_recursive_hash_OffByOne(salt, bytes, iterations) ==
  LET hasher == HasherNew
      h1 == IF iterations > 1
            THEN write_all(hasher, sha1_recursive_hash_OffByOne(salt, bytes, iterations - 1))
            ELSE write_all(hasher, bytes)
      h2 == write_all(h1, salt)
  IN finish(h2)

\* Nsec3HashAlgorithm::sha1_recursive_hash.
RECURSIVE sha1_recursive_hash(_, _, _)
sha1_recursive_hash(salt, bytes, iterations) ==
  LET hasher == HasherNew
      h1 == IF iterations > 0
            THEN write_all(hasher, sha1_recursive_hash(salt, bytes, iterations - 1))
            ELSE write_all(hasher, bytes)
      h2 == write_all(h1, salt)
  IN finish(h2)

\* Nsec3HashAlgorithm::hash, from the point where buf holds the canonical
\* encoding of the name (what name.emit wrote, lines 143-148).
hash(self, salt, buf, iterations) ==
  CASE self = "SHA1" -> sha1_recursive_hash(salt, buf, iterations)

Bytes(seq) == [i \in DOMAIN seq |-> Byte(seq[i])]

\* Salts: none, one byte, and the first bytes of the salt of the tests.
Salts == { Bytes(<< >>), Bytes(<<0>>), Bytes(<<170, 187>>) }

\* Canonical encodings of owner names: the root, "a." and "w.a.".
NameWires == { Bytes(<<0>>), Bytes(<<1, 97, 0>>), Bytes(<<1, 119, 1, 97, 0>>) }

\* A call of Nsec3HashAlgorithm::from_u8.
FromU8(value) ==
  /\ decoded' = Some([value |-> value, result |-> from_u8(value)])
  /\ UNCHANGED << udp_vars, encoded, hashed >>

\* A call of u8::from on the algorithm the last from_u8 returned.
IntoU8 ==
  /\ decoded # None
  /\ DOMAIN decoded[1].result = {"ok"}
  /\ encoded' = Some([alg |-> decoded[1].result.ok, code |-> decoded[1].value,
                      u8 |-> u8_from(decoded[1].result.ok)])
  /\ UNCHANGED << udp_vars, decoded, hashed >>

\* A call of Nsec3HashAlgorithm::SHA1.hash.
Hash(salt, buf, iterations) ==
  /\ hashed' = Some([salt |-> salt, buf |-> buf, iterations |-> iterations,
                     out |-> hash("SHA1", salt, buf, iterations)])
  /\ UNCHANGED << udp_vars, decoded, encoded >>

\* nsec3.rs has no state of its own: no call has been made, and no stream
\* exists.
Nsec3Init ==
  /\ phase = "none"
  /\ name_server = [fam |-> "V4", host |-> "ns"]
  /\ bind_address = next_bound_local_address(name_server)
  /\ socket = None
  /\ outbound_messages = << >>
  /\ fuse_done = FALSE
  /\ senders = 0
  /\ outbound_opt = None
  /\ inbound = << >>
  /\ enqueued = << >>
  /\ sent = << >>
  /\ dropped = << >>
  /\ trace = << >>
  /\ ret = "None"
  /\ item = None
  /\ bind = NoBind
  /\ send_ret = "None"
  /\ NoNsec3

DoFromU8 == \E value \in U8 : FromU8(value)
DoIntoU8 == IntoU8
DoHash == \E salt \in Salts, buf \in NameWires, iterations \in 0 .. MaxIterations :
            Hash(salt, buf, iterations)

Nsec3Next == DoFromU8 \/ DoIntoU8 \/ DoHash

\* The functions of nsec3.rs, called in any order.
Nsec3Spec == Nsec3Init /\ [][Nsec3Next]_vars

\* A step of the stream's poll: send() alone changes enqueued, and the arrival
\* of a datagram alone makes inbound longer.
PollStep == enqueued' = enqueued /\ Len(inbound') <= Len(inbound)

Ids(seq) == {seq[i].id : i \in DOMAIN seq}

Last(seq) == seq[Len(seq)]

\* The buffers the transport has taken from the queue and neither sent nor
\* released.
Held == Len(enqueued) - Len(outbound_messages) - Len(sent) - Len(dropped)

\* The calls of a poll from the i-th on respect the throttle, `slot` being the
\* slot's content before the i-th call: a send_to sends the slot's buffer, a
\* send_to that did not succeed is the last call of the poll, and an item is
\* taken from the queue only with the slot empty.
RECURSIVE Throttled(_, _, _)
Throttled(slot, tr, i) ==
  IF i > Len(tr) THEN TRUE
  ELSE LET e == tr[i]
       IN CASE e.op = "send_to" ->
                 /\ slot # None
                 /\ e.buf = slot
                 /\ IF e.out = "Ok" THEN Throttled(None, tr, i + 1) ELSE i = Len(tr)
            [] e.op = "outbound_messages.poll" /\ e.out = "Item" ->
                 /\ slot = None
                 /\ i < Len(tr)
                 /\ tr[i + 1].op = "poll_write"
                 /\ IF tr[i + 1].out = "Ready"
                    THEN Throttled(e.buf, tr, i + 2)
                    ELSE i + 1 = Len(tr)
            [] OTHER -> Throttled(slot, tr, i + 1)

\* C1: the slot never holds more than one buffer, the transport never holds
\* more than one buffer it has dequeued and not yet sent or released, and every
\* poll respects the throttle: each send_to transmits the buffer of the slot,
\* an item is dequeued only while the slot is empty, and no send follows a send
\* that has not completed.
C1_Throttle ==
  /\ [](Len(outbound_opt) <= 1 /\ Held = Len(outbound_opt))
  /\ [][PollStep => Throttled(outbound_opt, trace', 1)]_vars

\* C1's case: one poll sent two buffers, one after the other.
C1_Witness == Calls(trace, "send_to") >= 2 /\ Len(sent) >= 2

\* C2: the transmitted buffers are a subsequence of the enqueued ones: each is
\* the payload enqueued under its number, the numbers increase strictly (the
\* enqueue order, and none twice).
C2_SentSubsequence ==
  \A i \in DOMAIN sent :
    /\ sent[i].id \in DOMAIN enqueued
    /\ sent[i].data = enqueued[sent[i].id]
    /\ \A j \in DOMAIN sent : j < i => sent[j].id < sent[i].id

\* C2's case: two buffers of different payloads were transmitted.
C2_Witness == Len(sent) >= 2 /\ enqueued[1] # enqueued[2]

\* C3: a poll that finds a buffer in the slot first sends that buffer; if the
\* send would block the poll returns NotReady with the slot and the queue as
\* they were and nothing sent; if the send succeeds the buffer is transmitted
\* and no longer in the slot.
C3_Flush ==
  [][ (PollStep /\ outbound_opt # None) =>
        /\ trace' # << >>
        /\ trace'[1].op = "send_to"
        /\ trace'[1].buf = outbound_opt
        /\ (trace'[1].out = "WouldBlock" =>
              /\ ret' = "NotReady"
              /\ Len(trace') = 1
              /\ UNCHANGED << outbound_opt, outbound_messages, sent, dropped >>)
        /\ (trace'[1].out = "Ok" =>
              /\ sent' # << >>
              /\ sent'[Len(sent) + 1] = outbound_opt[1]
              /\ outbound_opt[1].id \notin Ids(outbound_opt')) ]_vars

\* C3's case: the last poll's send would block and the buffer waits in the slot.
C3_Witness ==
  /\ ret = "NotReady"
  /\ trace # << >>
  /\ Last(trace).op = "send_to"
  /\ Last(trace).out = "WouldBlock"
  /\ outbound_opt = Last(trace).buf

\* C4: a poll that dequeues a buffer and finds the socket not writable returns
\* NotReady, and the buffer is then neither in the slot nor in the queue; no
\* buffer released that way is ever transmitted.
C4_PullDrops ==
  /\ [][ (PollStep /\ trace' # << >> /\ Last(trace').op = "poll_write"
                   /\ Last(trace').out = "NotReady") =>
           /\ ret' = "NotReady"
           /\ outbound_opt' = None
           /\ LET b == trace'[Len(trace') - 1].buf[1]
              IN /\ b.id \notin Ids(outbound_messages')
                 /\ b.id \in Ids(dropped') ]_vars
  /\ [](Ids(dropped) \cap (Ids(sent) \cup Ids(outbound_opt) \cup Ids(outbound_messages)) = {})

\* C4's case: the first buffer was released unsent and a later one transmitted.
C4_Witness ==
  /\ dropped # << >>
  /\ sent # << >>
  /\ sent[1].id > dropped[1].id

\* The Sender handles a user of the stream can drop: all but the one the
\* stream keeps in message_sender for as long as it exists.
DroppableSenders == senders - Cardinality({"message_sender"})

RecvOk(tr) == \E i \in DOMAIN tr : tr[i].op = "recv_from" /\ tr[i].out = "Ok"

\* The poll logged a source that is not the name server.
Logged(tr) == \E i \in DOMAIN tr : tr[i].op = "debug"

\* C7: a poll calls recv_from at most once; when the call returns a datagram
\* the poll takes that one datagram from the socket and yields its first
\* min(size, 2048) bytes, whatever its source; a source other than the name
\* server is logged, and that is the only difference.  A poll whose recv_from
\* returned no datagram takes none and yields none.
C7_Receive ==
  [][ PollStep =>
        /\ Calls(trace', "recv_from") <= 1
        /\ IF RecvOk(trace')
           THEN /\ inbound # << >>
                /\ inbound' = Tail(inbound)
                /\ ret' = "Item"
                /\ item' = Some([len |-> Min(Head(inbound).size, RECV_BUF_LEN),
                                 of |-> Head(inbound)])
                /\ Logged(trace') <=> (Head(inbound).src # "ns")
           ELSE /\ inbound' = inbound
                /\ ret' # "Item"
                /\ item' = None ]_vars

\* C7's case: the last poll yielded a datagram that did not come from the name
\* server, and left the next one in the socket.
C7_Witness ==
  /\ ret = "Item"
  /\ item # None
  /\ item[1].of.src = "other"
  /\ Logged(trace)
  /\ inbound # << >>

\* An I/O call of the poll failed with an error other than would-block.
HardError(tr) == \E i \in DOMAIN tr : tr[i].out = "Err"

\* C8: a poll in which a send or a receive fails hard returns the error, and
\* the buffer of a send that failed hard is not sent again by a later poll.
C8_HardErrorNoRetry ==
  [][ PollStep =>
        /\ (HardError(trace') => ret' = "Err")
        /\ ((ret = "Err" /\ trace # << >> /\ Last(trace).op = "send_to") =>
              \A i \in DOMAIN trace' :
                trace'[i].op = "send_to" => trace'[i].buf # Last(trace).buf) ]_vars

\* C9: a poll of the binder makes at least one and at most 10 binds, none
\* after one that succeeded; it yields the socket of the bind that succeeded,
\* and returns NotReady, never an error, when all 10 failed, and then the
\* binder is as it was, to be polled again.
C9_BoundedBind ==
  bind.ret # "None" =>
    /\ bind.ret \in {"Ready", "NotReady"}
    /\ bind.attempts = Len(bind.outs)
    /\ bind.attempts \in 1 .. BIND_ATTEMPTS
    /\ \A i \in 1 .. (Len(bind.outs) - 1) : bind.outs[i] # "Ok"
    /\ (bind.ret = "Ready") <=> (Last(bind.outs) = "Ok")
    /\ bind.ret = "Ready" =>
         /\ bind.socket # None
         /\ socket = bind.socket
         /\ phase = "streaming"
    /\ bind.ret = "NotReady" =>
         /\ bind.attempts = BIND_ATTEMPTS
         /\ bind.socket = None
         /\ socket = None
         /\ phase = "binding"
         /\ bind_address = next_bound_local_address(name_server)

\* C9's case: all 10 binds of a poll failed.
C9_Witness ==
  /\ bind.ret = "NotReady"
  /\ bind.attempts = BIND_ATTEMPTS
  /\ phase = "binding"

\* C10: a poll of the binder in which a bind fails with an error that is not
\* "address in use" returns that error.
C10_HardBindErrorPropagates == bind.hard => bind.ret = "Err"

\* C11: every bind of every poll of the binder is to the wildcard address of
\* the name server's family (0.0.0.0 for IPv4, :: for IPv6), the socket the
\* binder yields is bound to it, and neither the binder's address nor a bound
\* socket changes afterwards.
C11_AddressFamily ==
  /\ [](/\ bind_address.fam = name_server.fam
        /\ bind_address.host = (IF name_server.fam = "V4" THEN "0.0.0.0" ELSE "::")
        /\ (bind.ret # "None" => bind.fams = {name_server.fam})
        /\ (socket # None =>
              /\ socket[1].fam = name_server.fam
              /\ socket[1].host = bind_address.host))
  /\ [][ /\ bind_address' = bind_address
         /\ name_server' = name_server
         /\ (socket # None => socket' = socket) ]_vars

\* C11's case: a poll made several binds for an IPv6 name server and the last
\* one gave the socket.
C11_Witness ==
  /\ name_server.fam = "V6"
  /\ bind.ret = "Ready"
  /\ bind.attempts >= 2
  /\ socket # None

\* The stream part of C11: no operation of the stream touches the socket.
SocketNeverRebound == [][socket' = socket]_vars

\* C12: every port a poll of the binder tries is at least 1025 and below 65535.
C12_PortRange == \A p \in bind.ports : 1025 <= p /\ p < 65535 /\ p < 2^16

\* C12's case: one poll tried the lowest and the highest port of the range.
C12_Witness == {1025, 65534} \subseteq bind.ports

\* A step of send(): it alone sets send_ret or makes enqueued longer.
SendStep == send_ret' # send_ret \/ enqueued' # enqueued

\* C13: a call of send() returns Ok and leaves the queue as it was with the one
\* buffer added at its tail; the slot, the socket and its datagrams, and what
\* was transmitted or released are untouched; and send() can be called
\* whatever the queue and the slot hold (it never waits for room).
C13_SendEnqueues ==
  /\ [][ SendStep =>
           /\ send_ret' = "Ok"
           /\ Len(outbound_messages') = Len(outbound_messages) + 1
           /\ SubSeq(outbound_messages', 1, Len(outbound_messages)) = outbound_messages
           /\ Last(outbound_messages').data = Last(enqueued')
           /\ Len(enqueued') = Len(enqueued) + 1
           /\ UNCHANGED << outbound_opt, socket, inbound, sent, dropped, fuse_done,
                           senders >> ]_vars
  /\ []((phase = "streaming" /\ Len(enqueued) < MaxEnq) => ENABLED DoSend)
  /\ [](send_ret # "Err")

\* C13's case: send() was called while a buffer waited in the slot for the
\* socket, and its buffer is the last of the queue.
C13_Witness ==
  /\ send_ret = "Ok"
  /\ outbound_opt # None
  /\ outbound_messages # << >>
  /\ Last(outbound_messages).id = Len(enqueued)
  /\ Last(outbound_messages).id > outbound_opt[1].id

\* H of RFC 5155 (the hash of x): the digest block of the bytes x.
H(x) == << [h |-> x] >>

\* d hashed n more times, the salt appended each time.
RECURSIVE Rounds(_, _, _)
Rounds(d, salt, n) == IF n = 0 THEN d ELSE Rounds(H(d \o salt), salt, n - 1)

\* D(k) of D0 = H(name || salt), Dk = H(D(k-1) || salt).
IteratedHash(salt, name, k) == Rounds(H(name \o salt), salt, k)

\* How many applications of H the bytes of seq are made of.
RECURSIVE Applications(_)
Applications(seq) ==
  IF seq = << >> THEN 0
  ELSE (IF DOMAIN Head(seq) = {"h"} THEN 1 + Applications(Head(seq).h) ELSE 0)
       + Applications(Tail(seq))

\* d is one digest whose input ends with the salt; before the salt comes the
\* name when k = 0, and a digest of the same kind for k - 1 otherwise.
RECURSIVE Layered(_, _, _, _)
Layered(d, salt, name, k) ==
  /\ Len(d) = 1
  /\ DOMAIN d[1] = {"h"}
  /\ LET input == d[1].h
         cut == Len(input) - Len(salt)
     IN /\ cut >= 0
        /\ SubSeq(input, cut + 1, Len(input)) = salt
        /\ IF k = 0 THEN SubSeq(input, 1, cut) = name
           ELSE Layered(SubSeq(input, 1, cut), salt, name, k - 1)

\* C14: the digest hash returns for a salt, an encoded name and k iterations
\* is D(k) of D0 = H(name || salt), Dk = H(D(k-1) || salt); it is made of
\* exactly k + 1 applications of H, each over an input that ends with the
\* salt, and the name is the input of the innermost one alone.
C14_IteratedHash ==
  hashed # None =>
    LET r == hashed[1]
    IN /\ r.out = IteratedHash(r.salt, r.buf, r.iterations)
       /\ Applications(r.out) = r.iterations + 1
       /\ Layered(r.out, r.salt, r.buf, r.iterations)

\* C14's case: a name hashed with a salt and several iterations.
C14_Witness ==
  /\ hashed # None
  /\ hashed[1].iterations >= 2
  /\ hashed[1].salt # << >>
  /\ Len(hashed[1].buf) > 1

\* C15: from_u8 returns SHA1 for the code 1 and, for every other code, the
\* error UnknownAlgorithmTypeValue that carries the code; the algorithm it
\* returned converts back to the code it was decoded from, 1.
C15_AlgorithmCode ==
  /\ decoded # None =>
       LET d == decoded[1]
       IN IF d.value = 1
          THEN d.result = [ok |-> "SHA1"]
          ELSE d.result = [err |-> [kind |-> "UnknownAlgorithmTypeValue",
                                    value |-> d.value]]
  /\ encoded # None =>
       /\ encoded[1].alg = "SHA1"
       /\ encoded[1].u8 = 1
       /\ encoded[1].u8 = encoded[1].code

\* C15's case: the code 1 was decoded and converted back, and then the code
\* 255 was refused.
C15_Witness ==
  /\ encoded # None
  /\ decoded # None
  /\ decoded[1].value = 255
  /\ DOMAIN decoded[1].result = {"err"}

\* C16: a buffer in the slot stays there, unchanged, until the step that
\* transmits it (the slot changes in no other way); no buffer is transmitted
\* twice, and none that waits in the slot has been transmitted already; and
\* when the stream keeps being polled and the socket does not refuse the sends
\* for ever, the slot does not stay full: the buffer that waits in it is
\* transmitted.
C16_PendingWriteNotLost ==
  /\ [][ outbound_opt # None =>
           \/ outbound_opt' = outbound_opt
           \/ /\ Len(sent') > Len(sent)
              /\ sent'[Len(sent) + 1] = outbound_opt[1] ]_vars
  /\ [](/\ \A i, j \in DOMAIN sent : sent[i].id = sent[j].id => i = j
        /\ Ids(outbound_opt) \cap Ids(sent) = {})
  /\ (outbound_opt # None) ~> (outbound_opt = None)

\* C16's case: a poll found a buffer waiting in the slot from an earlier poll
\* and transmitted it.
C16_Witness ==
  /\ trace # << >>
  /\ trace[1].op = "send_to"
  /\ trace[1].out = "Ok"
  /\ trace[1].buf[1].id \in Ids(sent)

\* The socket accepted every send and was writable at every poll_write.
AllAccepted(tr) ==
  \A i \in DOMAIN tr :
    /\ tr[i].op = "send_to" => tr[i].out = "Ok"
    /\ tr[i].op = "poll_write" => tr[i].out = "Ready"

\* C17: a poll during which the socket is writable and every send succeeds
\* transmits the buffer of the slot and then every buffer of the queue, in
\* order, one send each, and only then goes on to the closure check and to the
\* one receive: the slot and the queue are empty after it.
C17_EagerDrain ==
  [][ (PollStep /\ trace' # << >> /\ AllAccepted(trace')) =>
        /\ sent' = sent \o outbound_opt \o outbound_messages
        /\ Calls(trace', "send_to") = Len(outbound_opt) + Len(outbound_messages)
        /\ outbound_opt' = None
        /\ outbound_messages' = << >>
        /\ dropped' = dropped
        /\ Calls(trace', "recv_from") + Calls(trace', "is_done") = 1
        /\ \A i, j \in DOMAIN trace' :
             (trace'[i].op \in {"recv_from", "is_done"} /\ trace'[j].op = "send_to")
               => j < i ]_vars

\* C17's case: one poll transmitted two buffers and then tried to receive.
C17_Witness ==
  /\ Calls(trace, "send_to") = 2
  /\ AllAccepted(trace)
  /\ Calls(trace, "recv_from") = 1
  /\ outbound_messages = << >>
  /\ outbound_opt = None

\* C18: a poll calls recv_from only right after the queue answered that it has
\* no item and is not closed, with the slot and the queue empty; a poll that
\* keeps a buffer in the slot, or that took an item it could not pass to the
\* socket, takes no datagram.
C18_ReceiveThrottled ==
  [][ PollStep =>
        /\ \A i \in DOMAIN trace' :
             trace'[i].op = "recv_from" =>
               /\ i > 1
               /\ trace'[i - 1].op = "outbound_messages.poll"
               /\ trace'[i - 1].out = "NotReady"
               /\ outbound_opt' = None
               /\ outbound_messages' = << >>
        /\ (outbound_opt' # None \/ dropped' # dropped) =>
             /\ inbound' = inbound
             /\ Calls(trace', "recv_from") = 0
             /\ ret' # "Item" ]_vars

\* C18's case: a poll sent the buffer it had to send, found the queue empty
\* and then took the last datagram from the socket.
C18_Witness ==
  /\ ret = "Item"
  /\ Calls(trace, "send_to") = 1
  /\ inbound = << >>
  /\ outbound_opt = None

\* C20: for as long as the stream exists it holds a Sender of its own queue:
\* at least one sender is live, the queue never answers that it is closed,
\* the Fuse is never done, and no poll returns the end of the sequence.
C20_OwnSenderKeepsQueueOpen ==
  phase = "streaming" =>
    /\ senders >= 1
    /\ fuse_done = FALSE
    /\ ret # "End"
    /\ \A i \in DOMAIN trace : trace[i].out # "Closed" /\ trace[i].op # "is_done"

\* C20's case: every buffer enqueued has been transmitted, and the poll that
\* found the queue empty was told "not ready", not "closed", and went on to
\* the socket.
C20_Witness ==
  /\ enqueued # << >>
  /\ Len(sent) = Len(enqueued)
  /\ outbound_messages = << >>
  /\ outbound_opt = None
  /\ Len(trace) >= 2
  /\ Last(trace).op = "recv_from"
  /\ trace[Len(trace) - 1].op = "outbound_messages.poll"
  /\ trace[Len(trace) - 1].out = "NotReady"
  /\ ret = "NotReady"

====
